---- MODULE Spec2Model ----
(***************************************************************************)
(* Model of pkg/optional: the generic container Optional[T], its           *)
(* constructors, queries, mutators, pointer conversions and JSON adapter.  *)
(*                                                                         *)
(* T is instantiated twice: T = int (value semantics) and T = *int (a      *)
(* reference-like T whose values are handles to int cells).  Go memory is  *)
(* modelled as a heap of cells; the container's own slot o.value is one    *)
(* more addressable location, SlotAddr, so that an alias of the slot is    *)
(* expressible.                                                            *)
(***************************************************************************)
EXTENDS Integers, Sequences, FiniteSets, TLC

\* ---------------------------------------------------------------- bounds
MaxInt == 1        \* int inputs are drawn from 0..MaxInt
MaxAddr == 3       \* number of heap cells the callers may allocate
MaxLen == 5        \* longest byte buffer the caller builds by hand

\* ------------------------------------------------------------ the type T
Kinds == {"int", "ptr"}      \* T = int, T = *int

Nil == 0                     \* the nil pointer
SlotAddr == -1               \* the location of the field o.value
Addrs == 1..MaxAddr
Ints == 0..MaxInt

VARIABLES
    kind,       \* the type argument T of this Optional[T]
    value,      \* o.value
    hasValue,   \* o.hasValue
    heap,       \* heap[a]: content of cell a (an int, or a handle)
    nalloc,     \* cells 1..nalloc are allocated
    cellT,      \* the allocated cells that hold a T (the others hold an int)
    ref,        \* caller's *T handed to FromPtr
    p,          \* caller's *T returned by the first ToPtr
    q,          \* caller's *T returned by the second ToPtr
    data,       \* caller's []byte: MarshalJSON output / UnmarshalJSON input
    err,        \* error returned by the operation that produced this state
    op,         \* the operation that produced this state
    ret         \* what the last query returned

vars == <<kind, value, hasValue, heap, nalloc, cellT, ref, p, q, data, err, op, ret>>

\* *new(T): the zero value of T
Zero(k) == IF k = "int" THEN 0 ELSE Nil

\* the container as a struct value
O == [value |-> value, hasValue |-> hasValue]

Allocated == 1..nalloc
Fresh == nalloc + 1
IntCells == Allocated \ cellT

\* the T values a caller can write down in the current state
TVals == IF kind = "int" THEN Ints ELSE {Nil} \cup IntCells

\* *a
Load(a) == IF a = SlotAddr THEN value ELSE heap[a]

NoErr == "nil"
NoRet == [v |-> 0, ok |-> FALSE, arg |-> 0]

\* ------------------------------------------------ constructors (pure)
New(v) == [value |-> v, hasValue |-> TRUE]

FromPtr(r) ==
    IF r = Nil
    THEN [value |-> Zero(kind), hasValue |-> FALSE]
    ELSE [value |-> Load(r), hasValue |-> TRUE]

Empty == [value |-> Zero(kind), hasValue |-> FALSE]

\* ------------------------------------------------------- queries (pure)
IsEmpty(o) == ~o.hasValue

Get(o) == <<o.value, o.hasValue>>

\* a buggy ToPtr that caches the pointer it handed out first
ToPtrCached(o) ==
    IF ~o.hasValue THEN Nil
    ELSE IF p # Nil THEN p ELSE Fresh

\* a buggy ToPtr that returns the address of the slot itself
ToPtrAlias(o) == IF ~o.hasValue THEN Nil ELSE SlotAddr

\* ToPtr: nil when empty, else the address of a new variable v := o.value
ToPtr(o) == IF ~o.hasValue THEN Nil ELSE Fresh

\* a buggy Or with its branches swapped
OrSwapped(o, d) == IF o.hasValue THEN d ELSE o.value

Or(o, d) == IF ~o.hasValue THEN d ELSE o.value

\* ------------------------------------------------------------- mutators
\* a buggy Set that keeps a value already held
SetKeep(o, v) == [hasValue |-> TRUE, value |-> IF o.hasValue THEN o.value ELSE v]

Set(o, v) == [hasValue |-> TRUE, value |-> v]

\* a buggy Unset that only clears the flag
UnsetStale(o) == [hasValue |-> FALSE, value |-> o.value]

Unset(o) == [hasValue |-> FALSE, value |-> Zero(kind)]


\* ------------------------------------------------------ encoding/json for T
NullTok == <<"n", "u", "l", "l">>     \* []byte("null")

WS == {" ", "\n", "\r", "\t"}

Digits == <<"0", "1", "2", "3", "4", "5", "6", "7", "8", "9">>

IsDigit(b) == \E i \in 1..10 : Digits[i] = b

DigitVal(b) == (CHOOSE i \in 1..10 : Digits[i] = b) - 1

ErrEnd == "unexpected end of JSON input"
ErrSyntax == "invalid character"

RECURSIVE StripLeft(_)
StripLeft(d) == IF d # <<>> /\ Head(d) \in WS THEN StripLeft(Tail(d)) ELSE d

RECURSIVE StripRight(_)
StripRight(d) ==
    IF d # <<>> /\ d[Len(d)] \in WS THEN StripRight(SubSeq(d, 1, Len(d) - 1)) ELSE d

\* the JSON text without its insignificant leading and trailing whitespace
JsonTrim(d) == StripRight(StripLeft(d))

IsPrefix(s, t) == Len(s) <= Len(t) /\ SubSeq(t, 1, Len(s)) = s

\* a JSON integer literal: 0, or digits without a leading 0
IsNumber(s) ==
    /\ s # <<>>
    /\ \A i \in 1..Len(s) : IsDigit(s[i])
    /\ Len(s) > 1 => s[1] # "0"

RECURSIVE NumVal(_)
NumVal(s) == IF s = <<>> THEN 0 ELSE 10 * NumVal(SubSeq(s, 1, Len(s) - 1)) + DigitVal(s[Len(s)])

RECURSIVE IntToStr(_)
IntToStr(n) == IF n < 10 THEN <<Digits[n + 1]>> ELSE IntToStr(n \div 10) \o <<Digits[(n % 10) + 1]>>

\* json.Unmarshal(d, &v) with var v T, T = int or *int: the error it returns,
\* whether the text was the literal null (v keeps its zero value), and the
\* number decoded otherwise
JsonUnmarshal(d) ==
    LET s == JsonTrim(d) IN
    IF s = <<>> THEN [err |-> ErrEnd, null |-> FALSE, n |-> 0]
    ELSE IF s = NullTok THEN [err |-> NoErr, null |-> TRUE, n |-> 0]
    ELSE IF IsNumber(s) THEN [err |-> NoErr, null |-> FALSE, n |-> NumVal(s)]
    ELSE IF IsPrefix(s, NullTok) THEN [err |-> ErrEnd, null |-> FALSE, n |-> 0]
    ELSE [err |-> ErrSyntax, null |-> FALSE, n |-> 0]

\* json.Marshal(v) for v of type T
JsonMarshal(v) ==
    IF kind = "int" THEN IntToStr(v)
    ELSE IF v = Nil THEN NullTok
    ELSE IntToStr(heap[v])

\* ----------------------------------------------------------- JSON adapter
\* a buggy MarshalJSON that also encodes a present zero value as null
MarshalJSONOmitZero(o) ==
    IF ~o.hasValue \/ o.value = Zero(kind) THEN NullTok ELSE JsonMarshal(o.value)

MarshalJSON(o) == IF ~o.hasValue THEN NullTok ELSE JsonMarshal(o.value)

\* data with every whitespace byte removed (the loop over data)
Trimmed(d) == SelectSeq(d, LAMBDA b : b \notin WS)

\* the value json.Unmarshal leaves in v: for T = *int a decoded number lives
\* in a new int cell
Decoded(r) ==
    IF r.null THEN Zero(kind)
    ELSE IF kind = "int" THEN r.n
    ELSE Fresh

\* a buggy UnmarshalJSON that resets the container before it decodes
UnmarshalJSONResetFirst(recvNil, o, d) ==
    IF recvNil THEN [o |-> o, err |-> NoErr, new |-> <<>>]
    ELSE IF Trimmed(d) = NullTok THEN [o |-> Unset(o), err |-> NoErr, new |-> <<>>]
    ELSE LET r == JsonUnmarshal(d) IN
         IF r.err # NoErr THEN [o |-> Unset(o), err |-> r.err, new |-> <<>>]
         ELSE [o |-> Set(o, Decoded(r)), err |-> NoErr,
               new |-> IF kind = "ptr" /\ ~r.null THEN <<r.n>> ELSE <<>>]

\* UnmarshalJSON: the container and error it leaves, and the int cell the
\* decoder allocated (new), if any
UnmarshalJSON(recvNil, o, d) ==
    IF recvNil THEN [o |-> o, err |-> NoErr, new |-> <<>>]
    ELSE IF Len(d) = 4 /\ d = NullTok THEN [o |-> Unset(o), err |-> NoErr, new |-> <<>>]
    ELSE IF Trimmed(d) = NullTok THEN [o |-> Unset(o), err |-> NoErr, new |-> <<>>]
    ELSE LET r == JsonUnmarshal(d) IN
         IF r.err # NoErr THEN [o |-> o, err |-> r.err, new |-> <<>>]
         ELSE [o |-> Set(o, Decoded(r)), err |-> NoErr,
               new |-> IF kind = "ptr" /\ ~r.null THEN <<r.n>> ELSE <<>>]

\* ---------------------------------------------------------------- state
TypeOK ==
    /\ kind \in Kinds
    /\ hasValue \in BOOLEAN
    /\ nalloc \in 0..MaxAddr
    /\ cellT \subseteq Allocated
    /\ ref \in {Nil} \cup cellT
    /\ p \in {Nil} \cup cellT
    /\ q \in {Nil} \cup cellT

\* var o Optional[T]: the zero-initialised container, nothing allocated
Init ==
    /\ kind \in Kinds
    /\ value = Zero(kind)
    /\ hasValue = FALSE
    /\ heap = [a \in Addrs |-> 0]
    /\ nalloc = 0
    /\ cellT = {}
    /\ ref = Nil
    /\ p = Nil
    /\ q = Nil
    /\ data = <<>>
    /\ err = NoErr
    /\ op = "init"
    /\ ret = NoRet

Assign(o) == value' = o.value /\ hasValue' = o.hasValue

\* *a = v, where a may be a heap cell or the slot
Store(a, v) ==
    IF a = SlotAddr
    THEN value' = v /\ UNCHANGED heap
    ELSE heap' = [heap EXCEPT ![a] = v] /\ UNCHANGED value

\* ---------------------------------------------------- caller's variables
\* x := n (T = *int only): a new int cell whose address is a T value
NewInt(n) ==
    /\ kind = "ptr"
    /\ nalloc < MaxAddr
    /\ heap' = [heap EXCEPT ![Fresh] = n]
    /\ nalloc' = nalloc + 1
    /\ op' = "NewInt"
    /\ ret' = NoRet
    /\ err' = NoErr
    /\ UNCHANGED <<kind, value, hasValue, cellT, ref, p, q, data>>

\* x := v; ref = &x : a new cell of type T
MakeRef(v) ==
    /\ nalloc < MaxAddr
    /\ heap' = [heap EXCEPT ![Fresh] = v]
    /\ nalloc' = nalloc + 1
    /\ cellT' = cellT \cup {Fresh}
    /\ ref' = Fresh
    /\ op' = "MakeRef"
    /\ ret' = NoRet
    /\ err' = NoErr
    /\ UNCHANGED <<kind, value, hasValue, p, q, data>>

\* *ptr = v through one of the caller's *T
WriteT(ptr, v, name) ==
    /\ ptr # Nil
    /\ Store(ptr, v)
    /\ hasValue' = hasValue
    /\ op' = name
    /\ ret' = NoRet
    /\ err' = NoErr
    /\ UNCHANGED <<kind, nalloc, cellT, ref, p, q, data>>

\* **ptr = n (T = *int): write the int the handle in *ptr designates
WriteDeep(ptr, n, name) ==
    /\ kind = "ptr"
    /\ ptr # Nil
    /\ Load(ptr) # Nil
    /\ heap' = [heap EXCEPT ![Load(ptr)] = n]
    /\ op' = name
    /\ ret' = [v |-> 0, ok |-> FALSE, arg |-> n]
    /\ err' = NoErr
    /\ UNCHANGED <<kind, value, hasValue, nalloc, cellT, ref, p, q, data>>

\* --------------------------------------------------- container operations
CallNew(v) ==
    /\ Assign(New(v))
    /\ op' = "New"
    /\ ret' = NoRet
    /\ err' = NoErr
    /\ UNCHANGED <<kind, heap, nalloc, cellT, ref, p, q, data>>

CallEmpty ==
    /\ Assign(Empty)
    /\ op' = "Empty"
    /\ ret' = NoRet
    /\ err' = NoErr
    /\ UNCHANGED <<kind, heap, nalloc, cellT, ref, p, q, data>>

CallFromPtr ==
    /\ Assign(FromPtr(ref))
    /\ op' = "FromPtr"
    /\ ret' = NoRet
    /\ err' = NoErr
    /\ UNCHANGED <<kind, heap, nalloc, cellT, ref, p, q, data>>

CallSet(v) ==
    /\ Assign(Set(O, v))
    /\ op' = "Set"
    /\ ret' = [v |-> 0, ok |-> FALSE, arg |-> v]
    /\ err' = NoErr
    /\ UNCHANGED <<kind, heap, nalloc, cellT, ref, p, q, data>>

CallUnset ==
    /\ Assign(Unset(O))
    /\ op' = "Unset"
    /\ ret' = NoRet
    /\ err' = NoErr
    /\ UNCHANGED <<kind, heap, nalloc, cellT, ref, p, q, data>>

CallIsEmpty ==
    /\ ret' = [v |-> 0, ok |-> IsEmpty(O), arg |-> 0]
    /\ op' = "IsEmpty"
    /\ err' = NoErr
    /\ UNCHANGED <<kind, value, hasValue, heap, nalloc, cellT, ref, p, q, data>>

CallGet ==
    /\ ret' = [v |-> Get(O)[1], ok |-> Get(O)[2], arg |-> 0]
    /\ op' = "Get"
    /\ err' = NoErr
    /\ UNCHANGED <<kind, value, hasValue, heap, nalloc, cellT, ref, p, q, data>>

CallOr(d) ==
    /\ ret' = [v |-> Or(O, d), ok |-> TRUE, arg |-> d]
    /\ op' = "Or"
    /\ err' = NoErr
    /\ UNCHANGED <<kind, value, hasValue, heap, nalloc, cellT, ref, p, q, data>>

\* the receiver is a copy of o; v := o.value is a new cell exactly when the
\* pointer returned is the fresh address
ToPtrInto(name) ==
    LET a == ToPtr(O) IN
    /\ a = Fresh => nalloc < MaxAddr
    /\ IF a = Fresh
       THEN /\ heap' = [heap EXCEPT ![a] = value]
            /\ nalloc' = nalloc + 1
            /\ cellT' = cellT \cup {a}
       ELSE UNCHANGED <<heap, nalloc, cellT>>
    /\ IF name = "p" THEN p' = a /\ q' = q ELSE q' = a /\ p' = p
    /\ op' = IF name = "p" THEN "ToPtrP" ELSE "ToPtrQ"
    /\ ret' = NoRet
    /\ err' = NoErr
    /\ UNCHANGED <<kind, value, hasValue, ref, data>>


\* ------------------------------------------------------------ JSON calls
CallMarshalJSON ==
    /\ data' = MarshalJSON(O)
    /\ op' = "MarshalJSON"
    /\ ret' = NoRet
    /\ err' = NoErr
    /\ UNCHANGED <<kind, value, hasValue, heap, nalloc, cellT, ref, p, q>>

CallUnmarshalJSON(recvNil) ==
    LET r == UnmarshalJSON(recvNil, O, data) IN
    /\ r.new # <<>> => nalloc < MaxAddr
    /\ Assign(r.o)
    /\ err' = r.err
    /\ IF r.new # <<>>
       THEN heap' = [heap EXCEPT ![Fresh] = r.new[1]] /\ nalloc' = nalloc + 1
       ELSE UNCHANGED <<heap, nalloc>>
    /\ op' = IF recvNil THEN "UnmarshalJSONNil" ELSE "UnmarshalJSON"
    /\ ret' = NoRet
    /\ UNCHANGED <<kind, cellT, ref, p, q, data>>

\* documents the caller hands to UnmarshalJSON besides MarshalJSON output
Docs ==
    { <<" ", "n", "u", "l", "l">>,
      <<"n", "u", "l">>,
      <<"1", " ">> }

LoadData(d) ==
    /\ data' = d
    /\ op' = "LoadData"
    /\ ret' = NoRet
    /\ err' = NoErr
    /\ UNCHANGED <<kind, value, hasValue, heap, nalloc, cellT, ref, p, q>>

\* bytes the caller appends to the buffer one at a time
Alphabet == {"n", "u", "l", " ", "\t", "1"}

AppendByte(b) ==
    /\ Len(data) < MaxLen
    /\ data' = Append(data, b)
    /\ op' = "AppendByte"
    /\ ret' = NoRet
    /\ err' = NoErr
    /\ UNCHANGED <<kind, value, hasValue, heap, nalloc, cellT, ref, p, q>>

ClearData ==
    /\ data' = <<>>
    /\ op' = "ClearData"
    /\ ret' = NoRet
    /\ err' = NoErr
    /\ UNCHANGED <<kind, value, hasValue, heap, nalloc, cellT, ref, p, q>>

Next ==
    \/ \E v \in TVals : CallNew(v)
    \/ CallEmpty
    \/ CallFromPtr
    \/ \E v \in TVals : CallSet(v)
    \/ CallUnset
    \/ ToPtrInto("p")
    \/ ToPtrInto("q")
    \/ \E n \in Ints : NewInt(n)
    \/ \E v \in TVals : MakeRef(v)
    \/ \E v \in TVals : WriteT(ref, v, "WriteRef")
    \/ \E v \in TVals : WriteT(p, v, "WriteP")
    \/ \E v \in TVals : WriteT(q, v, "WriteQ")
    \/ \E n \in Ints : WriteDeep(p, n, "WriteDeepP")

\* the container and the pointers handed in and out of it
Spec == Init /\ [][Next]_vars

\* every way to build or change a container, for both T, with the JSON
\* adapter fed MarshalJSON output and a few hand-written documents
NextCodec ==
    \/ \E v \in TVals : CallNew(v)
    \/ CallEmpty
    \/ CallFromPtr
    \/ \E v \in TVals : CallSet(v)
    \/ CallUnset
    \/ \E n \in Ints : NewInt(n)
    \/ \E v \in TVals : MakeRef(v)
    \/ CallIsEmpty
    \/ CallGet
    \/ \E d \in TVals : CallOr(d)
    \/ ToPtrInto("p")
    \/ CallMarshalJSON
    \/ CallUnmarshalJSON(FALSE)
    \/ CallUnmarshalJSON(TRUE)
    \/ \E d \in Docs : LoadData(d)

SpecCodec == Init /\ [][NextCodec]_vars

\* the JSON adapter alone, T = int, fed every byte string up to MaxLen
InitJSON == Init /\ kind = "int"

NextJSON ==
    \/ \E v \in TVals : CallSet(v)
    \/ CallUnset
    \/ \E b \in Alphabet : AppendByte(b)
    \/ ClearData
    \/ CallMarshalJSON
    \/ CallUnmarshalJSON(FALSE)

SpecJSON == InitJSON /\ [][NextJSON]_vars

\* ======================================================================
\* Properties
\* ======================================================================

\* the container after the step
ONext == [value |-> value', hasValue |-> hasValue']

\* *a after the step
LoadNext(a) == IF a = SlotAddr THEN value' ELSE heap'[a]

SlotUnchanged == value' = value /\ hasValue' = hasValue

\* the text is the token null with leading/trailing whitespace only
IsNullWS(d) == JsonTrim(d) = NullTok

\* C1: in every reachable state an absent container holds T's zero value in
\* its slot; no value set or decoded earlier survives a transition to absent.
C1_AbsentHoldsZero == ~hasValue => value = Zero(kind)

C1_Witness == op = "Unset" /\ ~hasValue /\ value = Zero(kind)

\* C2: for T = int no pointer handed in or out aliases the slot: a write
\* through ref, p or q leaves the container as it was; ToPtr on a present
\* container returns a non-nil pointer to a cell equal to the held value;
\* Set and Unset leave every heap cell as it was; p and q are distinct
\* cells, and a write through p leaves *q as it was.
C2_NoAlias ==
    [][ kind = "int" =>
          /\ op' \in {"WriteRef", "WriteP", "WriteQ"} => SlotUnchanged
          /\ (op' = "ToPtrP" /\ hasValue) => (p' # Nil /\ LoadNext(p') = value)
          /\ (op' = "ToPtrQ" /\ hasValue) => (q' # Nil /\ LoadNext(q') = value)
          /\ op' \in {"Set", "Unset"} => heap' = heap
          /\ (p' # Nil /\ q' # Nil) => p' # q'
          /\ (ref' # Nil /\ p' # Nil) => ref' # p'
          /\ (op' = "WriteP" /\ q # Nil) => LoadNext(q) = Load(q)
          /\ (op' = "WriteQ" /\ p # Nil) => LoadNext(p) = Load(p)
      ]_vars

C2_Witness ==
    /\ kind = "int"
    /\ op = "WriteP"
    /\ hasValue
    /\ ref # Nil /\ p # Nil /\ q # Nil
    /\ Load(ref) # value
    /\ Load(p) # value
    /\ Load(q) = value

\* C6: for T = *int the copy ToPtr makes is shallow: *p is the handle the
\* container holds, so an int written through that handle is what Get's
\* handle designates afterwards, while storing another handle into *p leaves
\* the container's handle and its pointee as they were.
C6_ShallowCopy ==
    [][ kind = "ptr" =>
          /\ (op' = "ToPtrP" /\ hasValue) => (p' # Nil /\ LoadNext(p') = value)
          /\ (op' = "WriteDeepP" /\ hasValue /\ Load(p) = value) =>
                (SlotUnchanged /\ heap'[Get(ONext)[1]] = ret'.arg)
          /\ op' = "WriteP" =>
                /\ SlotUnchanged
                /\ (hasValue /\ value # Nil) => heap'[value] = heap[value]
      ]_vars

C6_Witness ==
    /\ kind = "ptr"
    /\ op = "WriteDeepP"
    /\ hasValue /\ value # Nil
    /\ p # Nil /\ Load(p) = value
    /\ q # Nil /\ Load(q) # value
    /\ heap[value] = ret.arg
    /\ ret.arg # 0

\* C7: Set(v) leaves the container present with Get() = (v, true); Unset()
\* leaves it absent with Get() = (zero, false); Unset() on an absent
\* container changes no observation.
C7_SetUnset ==
    [][ /\ op' = "Set" => Get(ONext) = <<ret'.arg, TRUE>>
        /\ op' = "Unset" => Get(ONext) = <<Zero(kind), FALSE>>
        /\ (op' = "Unset" /\ ~hasValue) =>
              /\ IsEmpty(ONext) = IsEmpty(O)
              /\ Get(ONext) = Get(O)
              /\ ToPtr(ONext) = ToPtr(O)
              /\ \A d \in TVals : Or(ONext, d) = Or(O, d)
              /\ MarshalJSON(ONext) = MarshalJSON(O)
      ]_vars

C7_Witness == op = "Set" /\ hasValue /\ value = ret.arg /\ value # Zero(kind)

\* C8: the queries agree with the presence flag and change nothing in the
\* container: IsEmpty is true iff absent; Get is (value, true) when present
\* and (zero, false) when absent; ToPtr is nil iff absent; Or(d) is the
\* value when present and d when absent.
C8_Queries ==
    [][ /\ op' = "IsEmpty" => ret'.ok = ~hasValue
        /\ op' = "Get" =>
              <<ret'.v, ret'.ok>> =
                  IF hasValue THEN <<value, TRUE>> ELSE <<Zero(kind), FALSE>>
        /\ op' = "ToPtrP" => (p' = Nil <=> ~hasValue)
        /\ op' = "Or" => ret'.v = IF hasValue THEN value ELSE ret'.arg
        /\ op' \in {"IsEmpty", "Get", "ToPtrP", "Or", "MarshalJSON"} => SlotUnchanged
      ]_vars

C8_Witness == op = "Or" /\ ~hasValue /\ ret.v = ret.arg /\ ret.arg # Zero(kind)

\* the value T's decoder produces from d, as the container would hold it
DecodedInt(d) == JsonUnmarshal(d).n

\* C3: UnmarshalJSON of the token null with leading/trailing whitespace
\* leaves the container absent with the zero slot and returns no error; any
\* other input gets the verdict of T's decoder, and when that decoder
\* succeeds the container is present with the decoded value.
C3_NullOrDecode ==
    op = "UnmarshalJSON" =>
        IF IsNullWS(data)
        THEN ~hasValue /\ value = Zero(kind) /\ err = NoErr
        ELSE /\ err = JsonUnmarshal(data).err
             /\ JsonUnmarshal(data).err = NoErr =>
                    (hasValue /\ value = DecodedInt(data))

\* C4: on every input T's decoder rejects, UnmarshalJSON returns the error
\* T's decoder returns for that input.
C4_SameError ==
    (op = "UnmarshalJSON" /\ JsonUnmarshal(data).err # NoErr) =>
        err = JsonUnmarshal(data).err

\* C5: MarshalJSON right after a successful UnmarshalJSON of x yields null
\* when x is null with surrounding whitespace, and otherwise T's encoding of
\* the value T's decoder produced from x.
C5_RoundTrip ==
    [][ (op = "UnmarshalJSON" /\ err = NoErr /\ op' = "MarshalJSON") =>
           IF IsNullWS(data)
           THEN data' = NullTok
           ELSE /\ JsonUnmarshal(data).err = NoErr
                /\ data' = IntToStr(DecodedInt(data))
      ]_vars

\* C9: an UnmarshalJSON that returns an error leaves the presence flag and
\* the slot as they were.
C9_ErrorLeavesContainer ==
    [][ (op' = "UnmarshalJSON" /\ err' # NoErr) => SlotUnchanged ]_vars

C9_Witness ==
    op = "UnmarshalJSON" /\ err # NoErr /\ hasValue /\ value # Zero(kind)

\* v and w are equal T values, w read after the step
ValEqNext(v, w) ==
    IF kind = "int" THEN v = w
    ELSE IF v = Nil \/ w = Nil THEN v = w
    ELSE heap'[v] = heap'[w]

\* C10 as claimed: UnmarshalJSON of the output of o.MarshalJSON() yields the
\* presence flag of o and an equal value, for every container o.
C10_EncodeDecode ==
    [][ (op = "MarshalJSON" /\ op' = "UnmarshalJSON") =>
           (hasValue' = hasValue /\ ValEqNext(value, value')) ]_vars

\* C10 amended: UnmarshalJSON of the output of o.MarshalJSON() returns no
\* error and yields the presence flag of o and an equal value, unless o is
\* present with a value T encodes as null (a nil pointer): then it yields
\* the absent container with the zero slot.
C10_EncodeDecodeUnlessNull ==
    [][ (op = "MarshalJSON" /\ op' = "UnmarshalJSON") =>
           /\ err' = NoErr
           /\ IF hasValue /\ JsonMarshal(value) = NullTok
              THEN ~hasValue' /\ value' = Zero(kind)
              ELSE hasValue' = hasValue /\ ValEqNext(value, value')
      ]_vars

C10_Witness ==
    /\ kind = "ptr"
    /\ op = "UnmarshalJSON"
    /\ err = NoErr
    /\ hasValue
    /\ value \in IntCells
    /\ data = IntToStr(heap[value])
    /\ heap[value] # 0

====
